---- MODULE Spec2Model ----
(***************************************************************************)
(* Points-for-products store: the order / points-ledger logic of           *)
(* server/routes.ts over the relational store of server/storage.ts and     *)
(* the schema of shared/schema.ts.                                         *)
(*                                                                         *)
(* Every route handler is a sequence of awaited storage calls.  One        *)
(* storage call (plus the synchronous code that follows it up to the next  *)
(* await) is one Step of a request.  Spec runs every handler to completion *)
(* in one action (sequential requests); SpecRace interleaves the Steps of  *)
(* concurrently running requests.                                          *)
(***************************************************************************)
EXTENDS Integers, Sequences, FiniteSets, TLC

VARIABLES
    users,              \* table users:   id -> [username, role, points]
    products,           \* table products: id -> [pointsCost, stock, isActive]
    productSeq,         \* the serial of products.id: the last id handed out
    orders,             \* table orders (serial id = position)
    orderItems,         \* table order_items
    pointTransactions,  \* table point_transactions (the ledger)
    req,                \* requests in flight: slot -> handler locals and position
    last,               \* the response on its way to the client, with the request
                        \* it answers and the store as the request found it
    stockEdited         \* history: products whose stock an admin update has set

vars == <<users, products, productSeq, orders, orderItems, pointTransactions, req, last,
          stockEdited>>

--------------------------------------------------------------------------
(* Bounds of the exploration *)

MaxOrders == 1
MaxLedger == 3
MaxProducts == 3
MaxUsers == 3
MaxRaceOrders == 2

(* Inputs.  User 1 is the administrator, user 2 an employee; caller 0 has no
   session.  Ids 3 name no row. *)

UserIds == {1, 2}
ProductIds == {1, 2}
Lines == [productId : ProductIds \cup {3}, quantity : {1, 2}]
ItemLists == {<<>>} \cup {<<a>> : a \in Lines} \cup {<<a, b>> : a, b \in Lines}

PlaceRequests ==
    {[kind |-> "place", caller |-> 2, items |-> items] : items \in ItemLists}
    \cup {[kind |-> "place", caller |-> c, items |-> <<[productId |-> 1, quantity |-> 1]>>]
            : c \in {0, 1}}
    \cup {[kind |-> "place", caller |-> 2, items |-> <<[productId |-> 1, quantity |-> 0]>>]}

\* orders of one product, in one line or in two
OneProductRequests ==
    {[kind |-> "place", caller |-> 2, items |-> items]
        : items \in {<<a>> : a \in Lines} \cup {<<a, a>> : a \in Lines}}

StatusRequests ==
    {[kind |-> "status", caller |-> 1, id |-> id, status |-> status]
        : id \in 1..(MaxOrders + 1), status \in {"pending", "completed", "cancelled"}}
    \cup {[kind |-> "status", caller |-> 1, id |-> 1, status |-> "shipped"]}
    \cup {[kind |-> "status", caller |-> c, id |-> 1, status |-> "cancelled"] : c \in {0, 2}}

AdjustRequests ==
    {[kind |-> "adjust", caller |-> 1, id |-> id, points |-> d, description |-> "bonus"]
        : id \in {2, 3}, d \in {-1, 0, 2}}
    \cup {[kind |-> "adjust", caller |-> 1, id |-> 2, points |-> 2, description |-> ""]}
    \cup {[kind |-> "adjust", caller |-> c, id |-> 2, points |-> 2, description |-> "bonus"]
            : c \in {0, 2}}

ProductPatches ==
    [isActive : {FALSE}] \cup [stock : {-1, 1}] \cup [pointsCost : {0, 2}]

UpdateProductRequests ==
    {[kind |-> "updateProduct", caller |-> 1, id |-> id, patch |-> patch]
        : id \in {1, 3}, patch \in ProductPatches}
    \cup {[kind |-> "updateProduct", caller |-> c, id |-> 1, patch |-> [stock |-> 1]]
            : c \in {0, 2}}

DeleteProductRequests ==
    {[kind |-> "deleteProduct", caller |-> c, id |-> id]
        : c \in {0, 1, 2}, id \in {2, 3}}

NewProducts ==
    {[pointsCost |-> 1, stock |-> 1], [pointsCost |-> 2, stock |-> 0],
     [pointsCost |-> 0, stock |-> 1], [pointsCost |-> 1, stock |-> -1]}

CreateProductRequests ==
    {[kind |-> "createProduct", caller |-> 1, product |-> product] : product \in NewProducts}
    \cup {[kind |-> "createProduct", caller |-> c, product |-> [pointsCost |-> 1, stock |-> 1]]
            : c \in {0, 2}}

ListProductsRequests == {[kind |-> "listProducts", caller |-> c] : c \in {0, 1, 2}}

ReadProductRequests ==
    {[kind |-> "readProduct", caller |-> c, id |-> id] : c \in {0, 1, 2}, id \in {1, 2, 3}}

\* role "" stands for a body without a role field
RegisterRequests ==
    [kind : {"register"}, caller : {0, 1, 2}, username : {"bia", "caio"},
     role : {"admin", "employee", ""}]

ListEmployeesRequests == {[kind |-> "listEmployees", caller |-> c] : c \in {0, 1, 2}}

(* Storage failures.  A placement request of FaultyPlaceRequests meets a
   database error at one of its writes: fail.pc names the write, and fail.i the
   iteration for the stock updates of the loop. *)
PlaceWrites ==
    {"createOrder", "createOrderItems", "updateProduct", "updateUser",
     "createPointTransaction"}

Faults ==
    {[pc |-> w, i |-> 1] : w \in PlaceWrites} \cup {[pc |-> "updateProduct", i |-> 2]}

FaultyPlaceRequests ==
    {[kind |-> "place", caller |-> 2, items |-> items, fail |-> fail]
        : items \in {<<[productId |-> 1, quantity |-> 1]>>,
                     <<[productId |-> 1, quantity |-> 1], [productId |-> 2, quantity |-> 1]>>},
          fail \in Faults}

--------------------------------------------------------------------------
(* Helpers *)

Undefined == [undefined |-> TRUE]
Found(x) == "undefined" \notin DOMAIN x

RECURSIVE SumSeq(_)
SumSeq(s) == IF s = <<>> THEN 0 ELSE Head(s) + SumSeq(Tail(s))

--------------------------------------------------------------------------
(* The store *)

DB == [users |-> users, products |-> products, productSeq |-> productSeq,
       orders |-> orders, orderItems |-> orderItems,
       pointTransactions |-> pointTransactions]

getUser(db, id) ==
    IF id \in DOMAIN db.users THEN db.users[id] @@ [id |-> id] ELSE Undefined

getUserByUsername(db, username) ==
    IF \E u \in DOMAIN db.users : db.users[u].username = username
    THEN LET u == CHOOSE x \in DOMAIN db.users : db.users[x].username = username
         IN  db.users[u] @@ [id |-> u]
    ELSE Undefined

getAllUsers(db) == {db.users[u] @@ [id |-> u] : u \in DOMAIN db.users}

\* the serial hands out the next id; no route deletes a user
createUser(db, user) ==
    [db EXCEPT !.users = (Cardinality(DOMAIN db.users) + 1 :> user) @@ @]

updateUser(db, id, points) ==
    IF id \in DOMAIN db.users THEN [db EXCEPT !.users[id].points = points] ELSE db

getProduct(db, id) ==
    IF id \in DOMAIN db.products THEN db.products[id] @@ [id |-> id] ELSE Undefined

\* the serial hands out the next id; an id is never used twice
createProduct(db, product) ==
    [db EXCEPT !.productSeq = @ + 1,
               !.products = (db.productSeq + 1 :> product) @@ @]

\* variant: the rows of every product
getActiveProducts_All(db) ==
    {db.products[q] @@ [id |-> q] : q \in DOMAIN db.products}

\* the rows a product list carries (their order is not modelled)
getActiveProducts(db) ==
    {db.products[q] @@ [id |-> q] : q \in {x \in DOMAIN db.products : db.products[x].isActive}}

getAllProducts(db) ==
    {db.products[q] @@ [id |-> q] : q \in DOMAIN db.products}

getEmployees(db) ==
    {db.users[u] @@ [id |-> u] : u \in {x \in DOMAIN db.users : db.users[x].role = "employee"}}

\* variant: a patch without a stock field empties the stock
ApplyPatch_ClearStock(row, patch) ==
    [f \in DOMAIN row |->
        IF f \in DOMAIN patch THEN patch[f] ELSE IF f = "stock" THEN 0 ELSE row[f]]

ApplyPatch(row, patch) ==
    [f \in DOMAIN row |-> IF f \in DOMAIN patch THEN patch[f] ELSE row[f]]

updateProduct(db, id, patch) ==
    IF id \in DOMAIN db.products
    THEN [db EXCEPT !.products[id] = ApplyPatch(@, patch)]
    ELSE db

\* variant: an id past the last order answers the last order
getOrder_LastIfMissing(db, id) ==
    IF db.orders = <<>> THEN Undefined
    ELSE IF id \in 1..Len(db.orders) THEN db.orders[id] @@ [id |-> id]
    ELSE db.orders[Len(db.orders)] @@ [id |-> Len(db.orders)]

getOrder(db, id) ==
    IF id \in 1..Len(db.orders) THEN db.orders[id] @@ [id |-> id] ELSE Undefined

createOrder(db, order) == [db EXCEPT !.orders = Append(@, order)]

updateOrder(db, id, status) ==
    IF id \in 1..Len(db.orders) THEN [db EXCEPT !.orders[id].status = status] ELSE db

getOrderItems(db, orderId) ==
    SelectSeq(db.orderItems, LAMBDA it : it.orderId = orderId)

createOrderItems(db, items) == [db EXCEPT !.orderItems = @ \o items]

\* variant: the new row put in the place of the last one
createPointTransaction_Overwrite(db, tx) ==
    [db EXCEPT !.pointTransactions =
        IF @ = <<>> THEN <<tx>> ELSE [@ EXCEPT ![Len(@)] = tx]]

createPointTransaction(db, tx) == [db EXCEPT !.pointTransactions = Append(@, tx)]

--------------------------------------------------------------------------
(* Requests and responses *)

NoRes == [status |-> 0]
Resp(status, message, body) == [status |-> status, message |-> message, body |-> body]
Done(r, res) == [r EXCEPT !.pc = "done", !.res = res]

IsAuthenticated(db, caller) == caller \in DOMAIN db.users

\* auth.ts app.use("/api/protected/*"): 0 = next(), otherwise the status sent
ProtectedGate(db, caller) == IF ~IsAuthenticated(db, caller) THEN 401 ELSE 0

\* variant: any session passes
AdminGate_AnySession(db, caller) == IF ~IsAuthenticated(db, caller) THEN 401 ELSE 0

\* auth.ts app.use("/api/admin/*") and routes.ts isAdmin: the same two tests
AdminGate(db, caller) ==
    IF ~IsAuthenticated(db, caller) THEN 401
    ELSE IF db.users[caller].role # "admin" THEN 403
    ELSE 0

GateMessage(code) ==
    IF code = 401 THEN "Nao autenticado" ELSE "Acesso nao autorizado"

--------------------------------------------------------------------------
(* POST /api/protected/orders *)

\* orderRequestSchema: items is an array of {productId > 0, quantity > 0}
OrderRequestValid(items) ==
    \A i \in 1..Len(items) : items[i].productId > 0 /\ items[i].quantity > 0

PlaceLocals(in) ==
    [kind |-> "place", pc |-> "getUser", in |-> in, res |-> NoRes,
     userId |-> in.caller, user |-> Undefined, totalPoints |-> 0,
     orderProducts |-> <<>>, order |-> Undefined, i |-> 1]

PlaceBegin(db, in) ==
    LET gate == ProtectedGate(db, in.caller) IN
    IF gate # 0 THEN Done(PlaceLocals(in), Resp(gate, GateMessage(gate), <<>>))
    ELSE IF ~OrderRequestValid(in.items)
    THEN Done(PlaceLocals(in), Resp(400, "Dados invalidos fornecidos", <<>>))
    ELSE PlaceLocals(in)

\* variant: the points check left out
PlaceCheckPoints_Skipped(r) == [r EXCEPT !.pc = "createOrder"]

\* variant: <= where the code has <
PlaceCheckPoints_Strict(r) ==
    IF r.user.points <= r.totalPoints
    THEN Done(r, Resp(400, "Pontos insuficientes",
                      [userPoints |-> r.user.points, requiredPoints |-> r.totalPoints]))
    ELSE [r EXCEPT !.pc = "createOrder"]

\* variant: one point of overdraft let through
PlaceCheckPoints_Overdraft(r) ==
    IF r.user.points + 1 < r.totalPoints
    THEN Done(r, Resp(400, "Pontos insuficientes",
                      [userPoints |-> r.user.points, requiredPoints |-> r.totalPoints]))
    ELSE [r EXCEPT !.pc = "createOrder"]

\* routes.ts 405-412: the points check that follows the loop
PlaceCheckPoints(r) ==
    IF r.user.points < r.totalPoints
    THEN Done(r, Resp(400, "Pontos insuficientes",
                      [userPoints |-> r.user.points, requiredPoints |-> r.totalPoints]))
    ELSE [r EXCEPT !.pc = "createOrder"]

PlaceLoopNext(r) ==
    IF Len(r.orderProducts) < Len(r.in.items)
    THEN [r EXCEPT !.pc = "getProduct"]
    ELSE PlaceCheckPoints(r)

PlaceGetUser(db, r) ==
    LET user == getUser(db, r.userId) IN
    IF ~Found(user)
    THEN [db |-> db, r |-> Done(r, Resp(404, "Usuario nao encontrado", <<>>))]
    ELSE [db |-> db, r |-> PlaceLoopNext([r EXCEPT !.user = user])]

\* variant: the price of one unit whatever the quantity
ItemTotal_UnitPrice(product, item) == product.pointsCost

\* routes.ts 395-396
ItemTotal(product, item) == product.pointsCost * item.quantity

\* one iteration of the validation loop, routes.ts 381-403
PlaceGetProduct(db, r) ==
    LET item == r.in.items[Len(r.orderProducts) + 1]
        product == getProduct(db, item.productId)
    IN  IF ~Found(product)
        THEN [db |-> db,
              r |-> Done(r, Resp(400, "Produto ID nao encontrado", item.productId))]
        ELSE IF ~product.isActive
        THEN [db |-> db,
              r |-> Done(r, Resp(400, "Produto nao esta disponivel", item.productId))]
        ELSE IF product.stock < item.quantity
        THEN [db |-> db,
              r |-> Done(r, Resp(400, "Estoque insuficiente", item.productId))]
        ELSE [db |-> db,
              r |-> PlaceLoopNext(
                      [r EXCEPT !.totalPoints = @ + ItemTotal(product, item),
                                !.orderProducts = Append(@,
                                    [product |-> product, quantity |-> item.quantity,
                                     pointsCost |-> product.pointsCost])])]

PlaceCreateOrder(db, r) ==
    LET row == [userId |-> r.userId, totalPoints |-> r.totalPoints, status |-> "pending"]
        db2 == createOrder(db, row)
    IN  [db |-> db2,
         r |-> [r EXCEPT !.order = row @@ [id |-> Len(db2.orders)],
                         !.pc = "createOrderItems"]]

\* routes.ts 422-429
NewOrderItems(r) ==
    [k \in 1..Len(r.orderProducts) |->
        [orderId |-> r.order.id, productId |-> r.orderProducts[k].product.id,
         quantity |-> r.orderProducts[k].quantity,
         pointsCost |-> r.orderProducts[k].pointsCost]]

\* insert().values([]) throws in the query builder; the handler's catch answers 500
PlaceCreateOrderItems(db, r) ==
    IF r.orderProducts = <<>>
    THEN [db |-> db, r |-> Done(r, Resp(500, "Erro ao criar pedido", <<>>))]
    ELSE [db |-> createOrderItems(db, NewOrderItems(r)),
          r |-> [r EXCEPT !.pc = "updateProduct", !.i = 1]]

\* variant: one unit taken whatever the quantity
StockAfterOrder_OneUnit(item) == item.product.stock - 1

\* routes.ts 434
StockAfterOrder(item) == item.product.stock - item.quantity

PlaceUpdateProduct(db, r) ==
    LET item == r.orderProducts[r.i] IN
    [db |-> updateProduct(db, item.product.id, [stock |-> StockAfterOrder(item)]),
     r |-> IF r.i < Len(r.orderProducts)
           THEN [r EXCEPT !.i = @ + 1]
           ELSE [r EXCEPT !.pc = "updateUser"]]

\* routes.ts 440
PointsAfterOrder(user, totalPoints) == user.points - totalPoints

PlaceUpdateUser(db, r) ==
    [db |-> updateUser(db, r.userId, PointsAfterOrder(r.user, r.totalPoints)),
     r |-> [r EXCEPT !.pc = "createPointTransaction"]]

\* routes.ts 444-450
SpentTransaction(r) ==
    [userId |-> r.userId, points |-> -r.totalPoints,
     description |-> <<"Pedido", r.order.id>>, transactionType |-> "spent",
     referenceId |-> r.order.id]

PlaceCreatePointTransaction(db, r) ==
    [db |-> createPointTransaction(db, SpentTransaction(r)),
     r |-> Done(r, Resp(201, "", [order |-> r.order, items |-> NewOrderItems(r)]))]

\* the storage call the request is about to make meets a database error
Fails(r) ==
    /\ "fail" \in DOMAIN r.in
    /\ r.in.fail.pc = r.pc
    /\ r.pc = "updateProduct" => r.in.fail.i = r.i

(* storage.ts 123-126: updateUser catches the error and returns undefined, which
   the handler does not look at; the error of any other call reaches the
   handler's catch, routes.ts 460-462.  Nothing written before is undone. *)
PlaceFault(db, r) ==
    IF r.pc = "updateUser"
    THEN [db |-> db, r |-> [r EXCEPT !.pc = "createPointTransaction"]]
    ELSE [db |-> db, r |-> Done(r, Resp(500, "Erro ao criar pedido", <<>>))]

PlaceStep(db, r) ==
    CASE Fails(r) -> PlaceFault(db, r)
      [] r.pc = "getUser" -> PlaceGetUser(db, r)
      [] r.pc = "getProduct" -> PlaceGetProduct(db, r)
      [] r.pc = "createOrder" -> PlaceCreateOrder(db, r)
      [] r.pc = "createOrderItems" -> PlaceCreateOrderItems(db, r)
      [] r.pc = "updateProduct" -> PlaceUpdateProduct(db, r)
      [] r.pc = "updateUser" -> PlaceUpdateUser(db, r)
      [] r.pc = "createPointTransaction" -> PlaceCreatePointTransaction(db, r)

--------------------------------------------------------------------------
(* PATCH /api/admin/orders/:id/status *)

\* statusSchema, and updateOrderSchema of shared/schema.ts
OrderStatuses == {"pending", "completed", "cancelled"}

StatusLocals(in) ==
    [kind |-> "status", pc |-> "getOrder", in |-> in, res |-> NoRes,
     order |-> Undefined, user |-> Undefined, orderItems |-> <<>>,
     product |-> Undefined, i |-> 1]

StatusBegin(db, in) ==
    LET gate == AdminGate(db, in.caller) IN
    IF gate # 0 THEN Done(StatusLocals(in), Resp(gate, GateMessage(gate), <<>>))
    ELSE IF in.status \notin OrderStatuses
    THEN Done(StatusLocals(in), Resp(400, "Status invalido fornecido", <<>>))
    ELSE StatusLocals(in)

\* variant: the test of the current status left out
NeedsRefund_Unguarded(status, order) == status = "cancelled"

\* variant: the refund taken on every change of status
NeedsRefund_OnAnyChange(status, order) == status # order.status

\* routes.ts 516: the guard of the refund branch
NeedsRefund(status, order) == status = "cancelled" /\ order.status # "cancelled"

StatusGetOrder(db, r) ==
    LET order == getOrder(db, r.in.id) IN
    IF ~Found(order)
    THEN [db |-> db, r |-> Done(r, Resp(404, "Pedido nao encontrado", <<>>))]
    ELSE [db |-> db,
          r |-> [r EXCEPT !.order = order,
                          !.pc = IF NeedsRefund(r.in.status, order)
                                 THEN "getUser" ELSE "updateOrder"]]

StatusGetUser(db, r) ==
    LET user == getUser(db, r.order.userId) IN
    [db |-> db,
     r |-> [r EXCEPT !.user = user,
                     !.pc = IF Found(user) THEN "updateUser" ELSE "updateOrder"]]

\* variant: the balance written back without the credit
PointsAfterRefund_NoCredit(user, order) == user.points

\* routes.ts 521
PointsAfterRefund(user, order) == user.points + order.totalPoints

StatusUpdateUser(db, r) ==
    [db |-> updateUser(db, r.user.id, PointsAfterRefund(r.user, r.order)),
     r |-> [r EXCEPT !.pc = "createPointTransaction"]]

\* routes.ts 525-531
RefundTransaction(r) ==
    [userId |-> r.user.id, points |-> r.order.totalPoints,
     description |-> <<"Reembolso do Pedido", r.order.id>>,
     transactionType |-> "earned", referenceId |-> r.order.id]

StatusCreatePointTransaction(db, r) ==
    [db |-> createPointTransaction(db, RefundTransaction(r)),
     r |-> [r EXCEPT !.pc = "getOrderItems"]]

\* variant: the loop over the items left at once
StatusLoopNext_NoItems(r) == [r EXCEPT !.pc = "updateOrder"]

StatusLoopNext(r) ==
    IF r.i <= Len(r.orderItems)
    THEN [r EXCEPT !.pc = "getProduct"]
    ELSE [r EXCEPT !.pc = "updateOrder"]

StatusGetOrderItems(db, r) ==
    [db |-> db,
     r |-> StatusLoopNext([r EXCEPT !.orderItems = getOrderItems(db, r.order.id),
                                    !.i = 1])]

StatusGetProduct(db, r) ==
    LET product == getProduct(db, r.orderItems[r.i].productId) IN
    [db |-> db,
     r |-> IF Found(product)
           THEN [r EXCEPT !.product = product, !.pc = "updateProduct"]
           ELSE StatusLoopNext([r EXCEPT !.i = @ + 1])]

\* variant: the stock written back without the returned quantity
StockAfterReturn_NoReturn(product, item) == product.stock

\* routes.ts 539
StockAfterReturn(product, item) == product.stock + item.quantity

StatusUpdateProduct(db, r) ==
    [db |-> updateProduct(db, r.product.id,
                          [stock |-> StockAfterReturn(r.product, r.orderItems[r.i])]),
     r |-> StatusLoopNext([r EXCEPT !.i = @ + 1])]

StatusUpdateOrder(db, r) ==
    LET db2 == updateOrder(db, r.in.id, r.in.status) IN
    [db |-> db2, r |-> Done(r, Resp(200, "", getOrder(db2, r.in.id)))]

StatusStep(db, r) ==
    CASE r.pc = "getOrder" -> StatusGetOrder(db, r)
      [] r.pc = "getUser" -> StatusGetUser(db, r)
      [] r.pc = "updateUser" -> StatusUpdateUser(db, r)
      [] r.pc = "createPointTransaction" -> StatusCreatePointTransaction(db, r)
      [] r.pc = "getOrderItems" -> StatusGetOrderItems(db, r)
      [] r.pc = "getProduct" -> StatusGetProduct(db, r)
      [] r.pc = "updateProduct" -> StatusUpdateProduct(db, r)
      [] r.pc = "updateOrder" -> StatusUpdateOrder(db, r)

--------------------------------------------------------------------------
(* PATCH /api/admin/users/:id/points *)

AdjustLocals(in) ==
    [kind |-> "adjust", pc |-> "getUser", in |-> in, res |-> NoRes,
     user |-> Undefined, updatedUser |-> Undefined]

\* pointsSchema: points is an integer, description has at least one character
AdjustBegin(db, in) ==
    LET gate == AdminGate(db, in.caller) IN
    IF gate # 0 THEN Done(AdjustLocals(in), Resp(gate, GateMessage(gate), <<>>))
    ELSE IF in.description = ""
    THEN Done(AdjustLocals(in), Resp(400, "Dados invalidos fornecidos", <<>>))
    ELSE AdjustLocals(in)

AdjustGetUser(db, r) ==
    LET user == getUser(db, r.in.id) IN
    IF ~Found(user)
    THEN [db |-> db, r |-> Done(r, Resp(404, "Usuario nao encontrado", <<>>))]
    ELSE [db |-> db, r |-> [r EXCEPT !.user = user, !.pc = "updateUser"]]

\* routes.ts 137
NewPoints(user, points) == user.points + points

AdjustUpdateUser(db, r) ==
    LET db2 == updateUser(db, r.in.id, NewPoints(r.user, r.in.points)) IN
    [db |-> db2,
     r |-> [r EXCEPT !.updatedUser = getUser(db2, r.in.id),
                     !.pc = "createPointTransaction"]]

\* variant: a delta of 0 booked as earned
AdjustTransaction_EarnedAtZero(r) ==
    [userId |-> r.in.id, points |-> r.in.points, description |-> r.in.description,
     transactionType |-> IF r.in.points >= 0 THEN "earned" ELSE "adjusted",
     referenceId |-> 0]

\* routes.ts 141-147
AdjustTransaction(r) ==
    [userId |-> r.in.id, points |-> r.in.points, description |-> r.in.description,
     transactionType |-> IF r.in.points > 0 THEN "earned" ELSE "adjusted",
     referenceId |-> 0]           \* null: order ids start at 1

AdjustCreatePointTransaction(db, r) ==
    [db |-> createPointTransaction(db, AdjustTransaction(r)),
     r |-> Done(r, Resp(200, "", r.updatedUser))]

AdjustStep(db, r) ==
    CASE r.pc = "getUser" -> AdjustGetUser(db, r)
      [] r.pc = "updateUser" -> AdjustUpdateUser(db, r)
      [] r.pc = "createPointTransaction" -> AdjustCreatePointTransaction(db, r)

--------------------------------------------------------------------------
(* PATCH /api/admin/products/:id and DELETE /api/admin/products/:id *)

ProductLocals(in) ==
    [kind |-> in.kind, in |-> in, res |-> NoRes, product |-> Undefined,
     pc |-> IF in.kind = "updateProduct" THEN "updateProduct"
            ELSE IF in.kind = "createProduct" THEN "createProduct"
            ELSE "getProduct"]

\* routes.ts 201-205: pointsCost positive, stock >= 0
ProductValid(product) == product.pointsCost > 0 /\ product.stock >= 0

\* variant: any integer taken for the stock
ProductPatchValid_AnyStock(patch) ==
    "pointsCost" \in DOMAIN patch => patch.pointsCost > 0

\* routes.ts 238-242: pointsCost positive, stock >= 0, all fields optional
ProductPatchValid(patch) ==
    /\ ("pointsCost" \in DOMAIN patch => patch.pointsCost > 0)
    /\ ("stock" \in DOMAIN patch => patch.stock >= 0)

ProductBegin(db, in) ==
    LET gate == AdminGate(db, in.caller) IN
    IF gate # 0 THEN Done(ProductLocals(in), Resp(gate, GateMessage(gate), <<>>))
    ELSE IF in.kind = "updateProduct" /\ ~ProductPatchValid(in.patch)
    THEN Done(ProductLocals(in), Resp(400, "Dados invalidos fornecidos", <<>>))
    ELSE IF in.kind = "createProduct" /\ ~ProductValid(in.product)
    THEN Done(ProductLocals(in), Resp(400, "Dados invalidos fornecidos", <<>>))
    ELSE ProductLocals(in)

\* isActive is left to the column default, true
ProductCreate(db, r) ==
    LET db2 == createProduct(db, r.in.product @@ [isActive |-> TRUE]) IN
    [db |-> db2, r |-> Done(r, Resp(201, "", getProduct(db2, db2.productSeq)))]

ProductUpdate(db, r) ==
    LET db2 == updateProduct(db, r.in.id, r.in.patch)
        updatedProduct == getProduct(db2, r.in.id)
    IN  IF ~Found(updatedProduct)
        THEN [db |-> db2, r |-> Done(r, Resp(404, "Produto nao encontrado", <<>>))]
        ELSE [db |-> db2, r |-> Done(r, Resp(200, "", updatedProduct))]

ProductGet(db, r) ==
    LET product == getProduct(db, r.in.id) IN
    IF ~Found(product)
    THEN [db |-> db, r |-> Done(r, Resp(404, "Produto nao encontrado", <<>>))]
    ELSE [db |-> db, r |-> [r EXCEPT !.product = product, !.pc = "deleteProduct"]]

\* order_items.product_id references products.id: the delete of a referenced row fails
Referenced(db, id) == \E k \in 1..Len(db.orderItems) : db.orderItems[k].productId = id

deleteProduct(db, id) ==
    [db EXCEPT !.products = [q \in DOMAIN @ \ {id} |-> @[q]]]

ProductDelete(db, r) ==
    IF Referenced(db, r.in.id)
    THEN [db |-> db, r |-> Done(r, Resp(500, "Erro ao excluir produto", <<>>))]
    ELSE [db |-> deleteProduct(db, r.in.id),
          r |-> Done(r, Resp(200, "Produto excluido com sucesso", <<>>))]

ProductStep(db, r) ==
    CASE r.pc = "createProduct" -> ProductCreate(db, r)
      [] r.pc = "updateProduct" -> ProductUpdate(db, r)
      [] r.pc = "getProduct" -> ProductGet(db, r)
      [] r.pc = "deleteProduct" -> ProductDelete(db, r)

--------------------------------------------------------------------------
(* GET /api/products, GET /api/products/:id and GET /api/admin/employees *)

ReadLocals(in) ==
    [kind |-> in.kind, in |-> in, res |-> NoRes,
     pc |-> IF in.kind = "listProducts" THEN "getProducts"
            ELSE IF in.kind = "readProduct" THEN "getProduct"
            ELSE "getEmployees"]

\* only the employee list stands behind the administrator's gate
ReadBegin(db, in) ==
    LET gate == IF in.kind = "listEmployees" THEN AdminGate(db, in.caller) ELSE 0 IN
    IF gate # 0 THEN Done(ReadLocals(in), Resp(gate, GateMessage(gate), <<>>))
    ELSE ReadLocals(in)

\* routes.ts 166 and 188: the caller has a session and the admin role
CallerIsAdmin(db, caller) ==
    IsAuthenticated(db, caller) /\ db.users[caller].role = "admin"

ListProducts(db, r) ==
    LET products_ == IF CallerIsAdmin(db, r.in.caller)
                     THEN getAllProducts(db) ELSE getActiveProducts(db)
    IN  [db |-> db, r |-> Done(r, Resp(200, "", products_))]

ReadProduct(db, r) ==
    LET product == getProduct(db, r.in.id) IN
    IF ~Found(product)
    THEN [db |-> db, r |-> Done(r, Resp(404, "Produto nao encontrado", <<>>))]
    ELSE IF ~CallerIsAdmin(db, r.in.caller) /\ ~product.isActive
    THEN [db |-> db, r |-> Done(r, Resp(404, "Produto nao encontrado", <<>>))]
    ELSE [db |-> db, r |-> Done(r, Resp(200, "", product))]

ListEmployees(db, r) ==
    [db |-> db, r |-> Done(r, Resp(200, "", getEmployees(db)))]

ReadStep(db, r) ==
    CASE r.pc = "getProducts" -> ListProducts(db, r)
      [] r.pc = "getProduct" -> ReadProduct(db, r)
      [] r.pc = "getEmployees" -> ListEmployees(db, r)

ReadKinds == {"listProducts", "readProduct", "listEmployees"}

ProductKinds == {"createProduct", "updateProduct", "deleteProduct"}

--------------------------------------------------------------------------
(* POST /api/register.  Of the body only username and role are modelled; the
   new row takes the column default for the points. *)

RegisterLocals(in) ==
    [kind |-> "register", pc |-> "getUserByUsername", in |-> in, res |-> NoRes,
     role |-> ""]

\* the route stands behind no gate and parses nothing
RegisterBegin(db, in) == RegisterLocals(in)

RegisterGetUserByUsername(db, r) ==
    IF Found(getUserByUsername(db, r.in.username))
    THEN [db |-> db, r |-> Done(r, Resp(400, "Nome de usuario ja existe", <<>>))]
    ELSE [db |-> db, r |-> [r EXCEPT !.pc = "getAllUsers"]]

\* auth.ts 95-96: the first user is admin, else the body's role or employee
RoleOfNewUser(allUsers, bodyRole) ==
    IF allUsers = {} THEN "admin"
    ELSE IF bodyRole # "" THEN bodyRole ELSE "employee"

\* auth.ts 99-103: a logged-in caller who is not admin asks for an admin
CreatesAdminUnauthorized(db, caller, role) ==
    /\ IsAuthenticated(db, caller)
    /\ db.users[caller].role # "admin"
    /\ role = "admin"

RegisterGetAllUsers(db, r) ==
    LET role == RoleOfNewUser(getAllUsers(db), r.in.role) IN
    IF CreatesAdminUnauthorized(db, r.in.caller, role)
    THEN [db |-> db, r |-> Done(r, Resp(403, "Sem permissao para criar administradores", <<>>))]
    ELSE [db |-> db, r |-> [r EXCEPT !.role = role, !.pc = "createUser"]]

RegisterCreateUser(db, r) ==
    LET user == [username |-> r.in.username, role |-> r.role, points |-> 0] IN
    [db |-> createUser(db, user), r |-> Done(r, Resp(201, "", user))]

RegisterStep(db, r) ==
    CASE r.pc = "getUserByUsername" -> RegisterGetUserByUsername(db, r)
      [] r.pc = "getAllUsers" -> RegisterGetAllUsers(db, r)
      [] r.pc = "createUser" -> RegisterCreateUser(db, r)

--------------------------------------------------------------------------
(* Running a handler *)

Begin(db, in) ==
    CASE in.kind = "place" -> PlaceBegin(db, in)
      [] in.kind = "status" -> StatusBegin(db, in)
      [] in.kind = "adjust" -> AdjustBegin(db, in)
      [] in.kind \in ProductKinds -> ProductBegin(db, in)
      [] in.kind \in ReadKinds -> ReadBegin(db, in)
      [] in.kind = "register" -> RegisterBegin(db, in)

Step(db, r) ==
    CASE r.kind = "place" -> PlaceStep(db, r)
      [] r.kind = "status" -> StatusStep(db, r)
      [] r.kind = "adjust" -> AdjustStep(db, r)
      [] r.kind \in ProductKinds -> ProductStep(db, r)
      [] r.kind \in ReadKinds -> ReadStep(db, r)
      [] r.kind = "register" -> RegisterStep(db, r)

RECURSIVE Run(_, _)
Run(db, r) ==
    IF r.pc = "done" THEN [db |-> db, r |-> r]
    ELSE LET s == Step(db, r) IN Run(s.db, s.r)

Idle == [pc |-> "idle"]
Slots == {1, 2}
NoRequest == [in |-> [kind |-> "none"], res |-> NoRes, pre |-> <<>>]

WithinBounds(db) ==
    /\ Len(db.orders) <= MaxOrders
    /\ Cardinality(DOMAIN db.users) <= MaxUsers
    /\ db.productSeq <= MaxProducts
    /\ Len(db.pointTransactions) <= MaxLedger

Commit(db) ==
    /\ users' = db.users
    /\ products' = db.products
    /\ productSeq' = db.productSeq
    /\ orders' = db.orders
    /\ orderItems' = db.orderItems
    /\ pointTransactions' = db.pointTransactions

\* history: a product update that answered 200 and carried a stock field
NoteStockEdit(r) ==
    stockEdited' =
        IF r.pc = "done" /\ r.kind = "updateProduct" /\ r.res.status = 200
           /\ "stock" \in DOMAIN r.in.patch
        THEN stockEdited \cup {r.in.id}
        ELSE stockEdited

\* one whole request, from the middleware to the response
Handle(in) ==
    LET out == Run(DB, Begin(DB, in)) IN
    /\ \A p \in Slots : req[p] = Idle
    /\ last = NoRequest
    /\ WithinBounds(out.db)
    /\ Commit(out.db)
    /\ last' = [in |-> in, res |-> out.r.res, pre |-> DB]
    /\ NoteStockEdit(out.r)
    /\ UNCHANGED req

PlaceOrder == \E in \in PlaceRequests : in.kind = "place" /\ Handle(in)

PlaceOrderOfOneProduct ==
    \E in \in OneProductRequests : Len(in.items) \in {1, 2} /\ Handle(in)

UpdateOrderStatus == \E in \in StatusRequests : in.kind = "status" /\ Handle(in)

AdjustPoints == \E in \in AdjustRequests : in.kind = "adjust" /\ Handle(in)

UpdateProduct ==
    \E in \in UpdateProductRequests : in.kind = "updateProduct" /\ Handle(in)

DeleteProduct ==
    \E in \in DeleteProductRequests : in.kind = "deleteProduct" /\ Handle(in)

CreateProduct ==
    \E in \in CreateProductRequests : in.kind = "createProduct" /\ Handle(in)

GetProducts == \E in \in ListProductsRequests : in.kind = "listProducts" /\ Handle(in)

GetProduct == \E in \in ReadProductRequests : in.kind = "readProduct" /\ Handle(in)

GetEmployees == \E in \in ListEmployeesRequests : in.kind = "listEmployees" /\ Handle(in)

Register == \E in \in RegisterRequests : in.kind = "register" /\ Handle(in)

PlaceOrderFault == \E in \in FaultyPlaceRequests : "fail" \in DOMAIN in /\ Handle(in)

\* the client takes the response; it sends its next request after that
Receive ==
    /\ last # NoRequest
    /\ last' = NoRequest
    /\ UNCHANGED <<users, products, productSeq, orders, orderItems, pointTransactions,
                   req, stockEdited>>

(* Concurrent requests: a request enters a free slot and then takes its storage
   calls one at a time, interleaved with those of the other slot. *)

StartRequest(p, in) ==
    LET r == Begin(DB, in) IN
    /\ req[p] = Idle
    /\ last = NoRequest
    /\ req' = [req EXCEPT ![p] = IF r.pc = "done" THEN Idle ELSE r]
    /\ last' = IF r.pc = "done" THEN [in |-> in, res |-> r.res, pre |-> <<>>] ELSE last
    /\ UNCHANGED <<users, products, productSeq, orders, orderItems, pointTransactions,
                   stockEdited>>

\* the request in slot p takes its next storage call; maxOrders bounds the orders
StepWithin(p, maxOrders) ==
    /\ req[p] # Idle
    /\ last = NoRequest
    /\ LET s == Step(DB, req[p]) IN
        /\ Len(s.db.orders) <= maxOrders
        /\ WithinBounds([s.db EXCEPT !.orders = <<>>])
        /\ Commit(s.db)
        /\ req' = [req EXCEPT ![p] = IF s.r.pc = "done" THEN Idle ELSE s.r]
        /\ last' = IF s.r.pc = "done"
                   THEN [in |-> s.r.in, res |-> s.r.res, pre |-> <<>>]
                   ELSE last
        /\ NoteStockEdit(s.r)

StepRequest(p) == StepWithin(p, MaxOrders)

CancelRequests ==
    {[kind |-> "status", caller |-> 1, id |-> id, status |-> "cancelled"]
        : id \in 1..MaxOrders}

StartCancel ==
    \E p \in Slots, in \in CancelRequests : in.status = "cancelled" /\ StartRequest(p, in)

StepCancel == \E p \in Slots : req[p] # Idle /\ StepRequest(p)

\* a cancellation that starts while no other request is under way
StartLoneCancel ==
    /\ \A p \in Slots : req[p] = Idle
    /\ \E in \in CancelRequests : StartRequest(1, in)

(* Concurrent placements: two orders of one line each may be on their way at
   once, with the cancellation of the first order. *)
RacePlaceRequests ==
    {[kind |-> "place", caller |-> 2, items |-> <<line>>]
        : line \in [productId : ProductIds, quantity : {1, 2}]}

StartPlace ==
    \E p \in Slots, in \in RacePlaceRequests : in.kind = "place" /\ StartRequest(p, in)

StepConcurrent == \E p \in Slots : req[p] # Idle /\ StepWithin(p, MaxRaceOrders)

--------------------------------------------------------------------------
(* Initial stores.  The schema defaults are points 0, stock 0, isActive true;
   the catalog and the employee's balance below are what an administrator has
   set up before the orders start. *)

InitialName == (1 :> "ana") @@ (2 :> "bia")
InitialPoints == (1 :> 0) @@ (2 :> 3)
InitialStock == (1 :> 2) @@ (2 :> 1)

InitStore(points, active) ==
    /\ users = [u \in UserIds |->
                  [username |-> InitialName[u],
                   role |-> IF u = 1 THEN "admin" ELSE "employee",
                   points |-> points[u]]]
    /\ products = [q \in ProductIds |->
                     [pointsCost |-> q, stock |-> InitialStock[q],
                      isActive |-> active[q]]]
    /\ productSeq = Cardinality(ProductIds)
    /\ orders = <<>>
    /\ orderItems = <<>>
    /\ pointTransactions = <<>>
    /\ req = [p \in Slots |-> Idle]
    /\ last = NoRequest
    /\ stockEdited = {}

\* orders and status updates, one request at a time
Init == \E a \in BOOLEAN : InitStore(InitialPoints, (1 :> TRUE) @@ (2 :> a))

Next == PlaceOrder \/ UpdateOrderStatus \/ Receive

Spec == Init /\ [][Next]_vars

\* the same with the administrator's point adjustments, every balance starting at 0
InitLedger == InitStore([u \in UserIds |-> 0], [q \in ProductIds |-> TRUE])

NextLedger == PlaceOrder \/ UpdateOrderStatus \/ AdjustPoints \/ Receive

SpecLedger == InitLedger /\ [][NextLedger]_vars

\* the catalog: products created, updated, deleted and read
NextCatalog ==
    \/ CreateProduct \/ UpdateProduct \/ DeleteProduct
    \/ GetProducts \/ GetProduct \/ Receive

SpecCatalog == Init /\ [][NextCatalog]_vars

\* the stock: the catalog's writes with the orders
NextStock ==
    \/ CreateProduct \/ UpdateProduct \/ DeleteProduct
    \/ PlaceOrderOfOneProduct \/ UpdateOrderStatus \/ Receive

SpecStock == Init /\ [][NextStock]_vars

(* Every route behind the administrator's gate.  The store starts as the
   employee's first order leaves it: one unit of product 1, pending. *)
FirstOrder ==
    [kind |-> "place", caller |-> 2, items |-> <<[productId |-> 1, quantity |-> 1]>>]

StoreAfterFirstOrder ==
    LET db == [users |-> [u \in UserIds |->
                            [username |-> InitialName[u],
                             role |-> IF u = 1 THEN "admin" ELSE "employee",
                             points |-> InitialPoints[u]]],
               products |-> [q \in ProductIds |->
                               [pointsCost |-> q, stock |-> InitialStock[q],
                                isActive |-> TRUE]],
               productSeq |-> Cardinality(ProductIds),
               orders |-> <<>>, orderItems |-> <<>>, pointTransactions |-> <<>>]
    IN  Run(db, Begin(db, FirstOrder)).db

InitAdmin ==
    /\ users = StoreAfterFirstOrder.users
    /\ products = StoreAfterFirstOrder.products
    /\ productSeq = StoreAfterFirstOrder.productSeq
    /\ orders = StoreAfterFirstOrder.orders
    /\ orderItems = StoreAfterFirstOrder.orderItems
    /\ pointTransactions = StoreAfterFirstOrder.pointTransactions
    /\ req = [p \in Slots |-> Idle]
    /\ last = NoRequest
    /\ stockEdited = {}

NextAdmin ==
    \/ CreateProduct \/ UpdateProduct \/ DeleteProduct
    \/ AdjustPoints \/ GetEmployees \/ UpdateOrderStatus \/ Receive

SpecAdmin == InitAdmin /\ [][NextAdmin]_vars

\* registrations, on an empty users table or after the first two users
InitRegister ==
    /\ \/ users = <<>>
       \/ users = [u \in UserIds |->
                     [username |-> InitialName[u],
                      role |-> IF u = 1 THEN "admin" ELSE "employee",
                      points |-> InitialPoints[u]]]
    /\ products = [q \in ProductIds |->
                     [pointsCost |-> q, stock |-> InitialStock[q], isActive |-> TRUE]]
    /\ productSeq = Cardinality(ProductIds)
    /\ orders = <<>>
    /\ orderItems = <<>>
    /\ pointTransactions = <<>>
    /\ req = [p \in Slots |-> Idle]
    /\ last = NoRequest
    /\ stockEdited = {}

NextRegister == Register \/ Receive

SpecRegister == InitRegister /\ [][NextRegister]_vars

\* placements that meet a storage failure
NextFault == PlaceOrder \/ PlaceOrderFault \/ UpdateOrderStatus \/ Receive

SpecFault == Init /\ [][NextFault]_vars

\* orders placed one at a time, cancellations running concurrently
InitRace == InitStore(InitialPoints, [q \in ProductIds |-> TRUE])

NextRace == PlaceOrder \/ StartCancel \/ StepCancel \/ Receive

SpecRace == InitRace /\ [][NextRace]_vars

\* one cancellation at a time, seen storage call by storage call
NextCancel == PlaceOrder \/ StartLoneCancel \/ StepCancel \/ Receive

SpecCancel == InitRace /\ [][NextCancel]_vars

\* placements and cancellations, all running concurrently
NextConcurrent == StartPlace \/ StartCancel \/ StepConcurrent \/ Receive

SpecConcurrent == InitRace /\ [][NextConcurrent]_vars

--------------------------------------------------------------------------
(* Vocabulary of the properties *)

\* sum of the points of the ledger rows of user u
LedgerSum(txs, u) ==
    SumSeq([k \in 1..Len(txs) |-> IF txs[k].userId = u THEN txs[k].points ELSE 0])

\* totalPoints of the orders of user u that are not cancelled
ActivePoints(os, u) ==
    SumSeq([k \in 1..Len(os) |->
              IF os[k].userId = u /\ os[k].status # "cancelled"
              THEN os[k].totalPoints ELSE 0])

\* quantity of product q in the items of the orders that are not cancelled
ActiveQuantity(os, its, q) ==
    SumSeq([k \in 1..Len(its) |->
              IF its[k].productId = q /\ os[its[k].orderId].status # "cancelled"
              THEN its[k].quantity ELSE 0])

\* quantity of product q in the items of order id
OrderQuantity(its, id, q) ==
    SumSeq([k \in 1..Len(its) |->
              IF its[k].productId = q /\ its[k].orderId = id
              THEN its[k].quantity ELSE 0])

\* quantity of product q asked for by the lines of a request
RequestQuantity(items, q) ==
    SumSeq([k \in 1..Len(items) |->
              IF items[k].productId = q THEN items[k].quantity ELSE 0])

DistinctProducts(items) ==
    \A j, k \in 1..Len(items) : items[j].productId = items[k].productId => j = k

\* a line that the validation of an order refuses, in store db
LineFails(db, line) ==
    \/ line.productId \notin DOMAIN db.products
    \/ ~db.products[line.productId].isActive
    \/ db.products[line.productId].stock < line.quantity

AllLinesPass(db, items) == \A k \in 1..Len(items) : ~LineFails(db, items[k])

\* sum of pointsCost x quantity over the lines, at the prices of store db
RequiredPoints(db, items) ==
    SumSeq([k \in 1..Len(items) |->
              db.products[items[k].productId].pointsCost * items[k].quantity])

\* the last request was an order placement that passed the middleware and the schema
PlacementServed ==
    /\ last.in.kind = "place"
    /\ last.in.caller \in DOMAIN last.pre.users
    /\ OrderRequestValid(last.in.items)

PlacementAccepted == PlacementServed /\ last.res.status = 201

\* the last request was a status update that reached the store and found its order
StatusServed ==
    /\ last.in.kind = "status"
    /\ last.in.caller = 1
    /\ last.in.status \in OrderStatuses
    /\ last.in.id \in 1..Len(last.pre.orders)

RefundRows(txs, id) ==
    {k \in 1..Len(txs) : txs[k].referenceId = id /\ txs[k].transactionType = "earned"}

--------------------------------------------------------------------------
(* C1  Ledger completeness: with every balance starting at 0 and an empty
   ledger, after every completed placement, status update or point adjustment
   each user's points equals the sum of the points of that user's ledger rows. *)
C1_LedgerCompleteness ==
    \A u \in UserIds : users[u].points = LedgerSum(pointTransactions, u)

\* an adjustment, a placement and a cancellation have all written to the ledger
C1_Witness ==
    /\ \E k \in 1..Len(pointTransactions) : pointTransactions[k].referenceId = 0
    /\ \E k \in 1..Len(pointTransactions) : pointTransactions[k].transactionType = "spent"
    /\ RefundRows(pointTransactions, 1) # {}
    /\ users[2].points > 0

(* C2  Balance conservation: after any sequence of placements and status
   updates each user's points equals the initial balance minus the totalPoints
   of that user's orders that are not cancelled. *)
C2_BalanceConservation ==
    \A u \in UserIds : users[u].points = InitialPoints[u] - ActivePoints(orders, u)

(* C3  Stock conservation: a product whose stock no admin update has set has
   stock equal to its initial stock minus the quantity of it in the items of
   the orders that are not cancelled. *)
C3_StockConservation ==
    \A q \in DOMAIN products :
        q \notin stockEdited =>
            products[q].stock = InitialStock[q] - ActiveQuantity(orders, orderItems, q)

(* C4  A placement that fails validation (a product missing, inactive or short
   of stock, or the total above the user's points) is rejected and leaves the
   orders, the items, the ledger, the stock and the user's points as they were. *)
C4_RejectedWithoutWrite ==
    (/\ PlacementServed
     /\ \/ ~AllLinesPass(last.pre, last.in.items)
        \/ RequiredPoints(last.pre, last.in.items) > last.pre.users[last.in.caller].points)
    => /\ last.res.status = 400
       /\ DB = last.pre

\* the second line is refused for stock after a first line that passed
C4_Witness ==
    /\ PlacementServed
    /\ Len(last.in.items) = 2
    /\ ~LineFails(last.pre, last.in.items[1])
    /\ last.res.message = "Estoque insuficiente"

(* C5  An accepted placement for distinct products adds exactly one order
   (pending, totalPoints = sum of current pointsCost x quantity), one item per
   line at the current price, takes each line's quantity from the stock and
   totalPoints from the user's points, and appends exactly one ledger row
   (-totalPoints, spent, referenceId = the new order's id). *)
C5_PlacementEffect ==
    (PlacementAccepted /\ DistinctProducts(last.in.items)) =>
        LET pre == last.pre
            items == last.in.items
            u == last.in.caller
            id == Len(pre.orders) + 1
            total == RequiredPoints(pre, items)
        IN  /\ orders = Append(pre.orders,
                          [userId |-> u, totalPoints |-> total, status |-> "pending"])
            /\ orderItems = pre.orderItems \o
                  [k \in 1..Len(items) |->
                     [orderId |-> id, productId |-> items[k].productId,
                      quantity |-> items[k].quantity,
                      pointsCost |-> pre.products[items[k].productId].pointsCost]]
            /\ products =
                  [q \in DOMAIN pre.products |->
                     [pre.products[q] EXCEPT !.stock = @ - RequestQuantity(items, q)]]
            /\ users = [pre.users EXCEPT ![u].points = @ - total]
            /\ pointTransactions = Append(pre.pointTransactions,
                  [userId |-> u, points |-> -total, description |-> <<"Pedido", id>>,
                   transactionType |-> "spent", referenceId |-> id])

\* an order of two different products was accepted
C5_Witness ==
    /\ PlacementAccepted
    /\ Len(last.in.items) = 2
    /\ DistinctProducts(last.in.items)

(* C6  When every line passes and the total exceeds the user's points the
   placement fails with the insufficient-points error carrying the user's
   balance and the total; when the total equals the balance it is accepted. *)
C6_InsufficientPoints ==
    (/\ PlacementServed
     /\ last.in.items # <<>>
     /\ AllLinesPass(last.pre, last.in.items)) =>
        LET balance == last.pre.users[last.in.caller].points
            total == RequiredPoints(last.pre, last.in.items)
        IN  /\ total > balance =>
                /\ last.res.status = 400
                /\ last.res.message = "Pontos insuficientes"
                /\ last.res.body = [userPoints |-> balance, requiredPoints |-> total]
            /\ total = balance => last.res.status = 201

\* a placement one point short was refused
C6_Witness ==
    /\ PlacementServed
    /\ last.res.message = "Pontos insuficientes"
    /\ last.res.body.requiredPoints = last.res.body.userPoints + 1

(* C7  Setting cancelled on a pending or completed order adds the order's
   totalPoints to its user's points, appends exactly one ledger row
   (+totalPoints, earned, referenceId = the order's id), returns each item's
   quantity to its product's stock and sets the order's status to cancelled. *)
C7_CancellationEffect ==
    (/\ StatusServed
     /\ last.in.status = "cancelled"
     /\ last.pre.orders[last.in.id].status \in {"pending", "completed"}) =>
        LET pre == last.pre
            id == last.in.id
            order == pre.orders[id]
        IN  /\ users = [pre.users EXCEPT ![order.userId].points = @ + order.totalPoints]
            /\ pointTransactions = Append(pre.pointTransactions,
                  [userId |-> order.userId, points |-> order.totalPoints,
                   description |-> <<"Reembolso do Pedido", id>>,
                   transactionType |-> "earned", referenceId |-> id])
            /\ products =
                  [q \in DOMAIN pre.products |->
                     [pre.products[q] EXCEPT
                        !.stock = @ + OrderQuantity(pre.orderItems, id, q)]]
            /\ orders = [pre.orders EXCEPT ![id].status = "cancelled"]
            /\ orderItems = pre.orderItems

\* a completed order with items was cancelled
C7_Witness ==
    /\ StatusServed
    /\ last.in.status = "cancelled"
    /\ last.pre.orders[last.in.id].status = "completed"
    /\ last.pre.orders[last.in.id].totalPoints > 0
    /\ last.res.status = 200

(* C8  Round trip: an accepted placement immediately followed by the
   cancellation of the new order leaves the user's points and every product's
   stock as they were before the placement, and the ledger two rows longer (one
   spent of -totalPoints, one earned of +totalPoints). *)
C8_RoundTrip ==
    PlacementAccepted =>
        LET id == Len(orders)
            total == orders[id].totalPoints
            cancel == [kind |-> "status", caller |-> 1, id |-> id, status |-> "cancelled"]
            after == Run(DB, Begin(DB, cancel)).db
        IN  /\ after.users = last.pre.users
            /\ \A q \in DOMAIN last.pre.products :
                   after.products[q].stock = last.pre.products[q].stock
            /\ Len(after.pointTransactions) = Len(last.pre.pointTransactions) + 2
            /\ LET spent == after.pointTransactions[Len(after.pointTransactions) - 1]
                   earned == after.pointTransactions[Len(after.pointTransactions)]
               IN  /\ spent.transactionType = "spent" /\ spent.points = -total
                   /\ earned.transactionType = "earned" /\ earned.points = total

(* C9  Idempotent cancellation: setting cancelled on an order that is already
   cancelled leaves every user's points, every product's stock and the ledger
   unchanged. *)
C9_IdempotentCancellation ==
    (/\ StatusServed
     /\ last.in.status = "cancelled"
     /\ last.pre.orders[last.in.id].status = "cancelled") =>
        /\ users = last.pre.users
        /\ products = last.pre.products
        /\ pointTransactions = last.pre.pointTransactions
        /\ orders = last.pre.orders

\* a cancelled order that had been debited was cancelled again
C9_Witness ==
    /\ StatusServed
    /\ last.in.status = "cancelled"
    /\ last.pre.orders[last.in.id].status = "cancelled"
    /\ last.pre.orders[last.in.id].totalPoints > 0
    /\ last.res.status = 200

(* C10  Concurrent cancellation safety: with cancellations of the same order
   running concurrently, the order's totalPoints is credited at most once (the
   balance never exceeds the initial balance), at most one refund row is
   written for the order, and the items' quantities return to stock at most
   once (the stock of a product the order names in one line never exceeds the
   initial stock). *)
C10_ConcurrentCancellation ==
    \A id \in 1..Len(orders) :
        /\ Cardinality(RefundRows(pointTransactions, id)) <= 1
        /\ users[orders[id].userId].points <= InitialPoints[orders[id].userId]
        /\ \A q \in DOMAIN products :
               Cardinality({k \in 1..Len(orderItems) :
                              orderItems[k].orderId = id /\ orderItems[k].productId = q}) = 1
               => products[q].stock <= InitialStock[q]

\* the last request was an adjustment that reached the store and found its user
AdjustServed ==
    /\ last.in.kind = "adjust"
    /\ last.in.caller = 1
    /\ last.in.description # ""
    /\ last.in.id \in DOMAIN last.pre.users

(* C11  An admin adjustment of an existing user by delta d with a non-empty
   description sets the user's points to the old points + d and appends exactly
   one ledger row: points d, the description, no referenceId, earned when
   d > 0 and adjusted otherwise (d = 0 included); nothing else is written. *)
C11_AdjustmentEffect ==
    AdjustServed =>
        LET pre == last.pre
            u == last.in.id
            d == last.in.points
        IN  /\ last.res.status = 200
            /\ users = [pre.users EXCEPT ![u].points = @ + d]
            /\ pointTransactions = Append(pre.pointTransactions,
                  [userId |-> u, points |-> d, description |-> last.in.description,
                   transactionType |-> IF d > 0 THEN "earned" ELSE "adjusted",
                   referenceId |-> 0])
            /\ products = pre.products
            /\ orders = pre.orders
            /\ orderItems = pre.orderItems

\* an adjustment by 0 was served on a balance that earlier adjustments had raised
C11_Witness ==
    /\ AdjustServed
    /\ last.in.points = 0
    /\ last.pre.users[last.in.id].points > 0

(* C12  Non-negative balance: after any sequence of placements, status updates
   and admin adjustments every user's points is >= 0. *)
C12_NonNegativeBalance == \A u \in DOMAIN users : users[u].points >= 0

(* C13  Non-negative stock: after any sequence of product creations, admin
   product updates, placements and status updates every product's stock is
   >= 0. *)
C13_NonNegativeStock == \A q \in DOMAIN products : products[q].stock >= 0

\* an accepted order that names one product in two lines has emptied its stock
C13_Witness ==
    /\ PlacementAccepted
    /\ Len(last.in.items) = 2
    /\ last.in.items[1].productId = last.in.items[2].productId
    /\ products[last.in.items[1].productId].stock = 0

\* the last request was a placement that passed validation and met its failure
FaultMet ==
    /\ last.in.kind = "place"
    /\ "fail" \in DOMAIN last.in
    /\ AllLinesPass(last.pre, last.in.items)
    /\ RequiredPoints(last.pre, last.in.items) <= last.pre.users[last.in.caller].points
    /\ last.in.fail.pc = "updateProduct" => last.in.fail.i <= Len(last.in.items)

(* C14  Rollback on write failure: when a storage write of the placement's
   apply sequence fails (the order insert, the items insert, a stock update,
   the balance update or the ledger insert), the orders, the items, the stock,
   the user's points and the ledger are afterwards as before the request. *)
C14_RollbackOnFailure == FaultMet => DB = last.pre

(* C15  Catalog visibility: the product list answered to a caller without a
   session or to an employee holds exactly the products with isActive true, the
   list answered to the administrator holds every product, and the read of one
   inactive product by a caller who is not the administrator answers 404. *)
C15_CatalogVisibility ==
    /\ last.in.kind = "listProducts" =>
          /\ last.res.status = 200
          /\ last.res.body =
                {last.pre.products[q] @@ [id |-> q] :
                    q \in {x \in DOMAIN last.pre.products :
                             last.in.caller = 1 \/ last.pre.products[x].isActive}}
    /\ (/\ last.in.kind = "readProduct"
        /\ last.in.caller # 1
        /\ last.in.id \in DOMAIN last.pre.products
        /\ ~last.pre.products[last.in.id].isActive) => last.res.status = 404

\* an employee was sent a list while the catalog held an inactive product
C15_Witness ==
    /\ last.in.kind = "listProducts"
    /\ last.in.caller = 2
    /\ \E q \in DOMAIN products : ~products[q].isActive
    /\ last.res.body # {}

AdminKinds ==
    {"createProduct", "updateProduct", "deleteProduct", "adjust", "listEmployees", "status"}

(* C16  Admin-only gating: product create, update and delete, point adjustment,
   employee list and order status update answer 401 to a caller without a
   session and 403 to an employee, and in both cases the users, the products,
   the orders and the ledger are unchanged. *)
C16_AdminOnly ==
    (last.in.kind \in AdminKinds /\ last.in.caller # 1) =>
        /\ last.res.status = IF last.in.caller = 0 THEN 401 ELSE 403
        /\ DB = last.pre

\* an employee's delete of an existing product that no order names was refused
C16_Witness ==
    /\ last.in.kind = "deleteProduct"
    /\ last.in.caller = 2
    /\ last.in.id \in DOMAIN products
    /\ ~Referenced(DB, last.in.id)
    /\ last.res.status = 403

(* C17  A status update from pending to completed changes only the order's
   status: the users' points, the products' stock, the order's totalPoints and
   items and the ledger rows are unchanged. *)
C17_CompletionFrame ==
    (/\ StatusServed
     /\ last.in.status = "completed"
     /\ last.pre.orders[last.in.id].status = "pending") =>
        /\ last.res.status = 200
        /\ users = last.pre.users
        /\ products = last.pre.products
        /\ orderItems = last.pre.orderItems
        /\ pointTransactions = last.pre.pointTransactions
        /\ orders = [last.pre.orders EXCEPT ![last.in.id].status = "completed"]

\* a pending order with a debit was completed
C17_Witness ==
    /\ StatusServed
    /\ last.in.status = "completed"
    /\ last.pre.orders[last.in.id].status = "pending"
    /\ last.pre.orders[last.in.id].totalPoints > 0
    /\ orders[last.in.id].status = "completed"

(* C18  The ledger is append-only: every step leaves the rows already written
   as they are, in their places, and adds rows at the end or none; a
   cancellation adds its refund row and leaves the order's spent row alone. *)
C18_AppendOnly ==
    [][/\ Len(pointTransactions') >= Len(pointTransactions)
       /\ SubSeq(pointTransactions', 1, Len(pointTransactions)) = pointTransactions]_vars

\* the refund row of an order stands after its spent row
C18_Witness ==
    \E j, k \in 1..Len(pointTransactions) :
        /\ j < k
        /\ pointTransactions[j].transactionType = "spent"
        /\ pointTransactions[j].referenceId = 1
        /\ k \in RefundRows(pointTransactions, 1)

\* the last request found product q, left it in the catalog and changed its stock
StockChanged(q) ==
    /\ last # NoRequest
    /\ q \in DOMAIN last.pre.products
    /\ q \in DOMAIN products
    /\ products[q].stock # last.pre.products[q].stock

ByPlacement(q) ==
    last.in.kind = "place" /\ products[q].stock < last.pre.products[q].stock

ByCancellation(q) ==
    /\ last.in.kind = "status"
    /\ last.in.status = "cancelled"
    /\ products[q].stock > last.pre.products[q].stock

ByStockEdit(q) ==
    /\ last.in.kind = "updateProduct"
    /\ last.in.id = q
    /\ "stock" \in DOMAIN last.in.patch
    /\ products[q].stock = last.in.patch.stock

(* C19  Stock changes only through placement and cancellation: a request that
   finds a product and leaves it in the catalog changes its stock only if it is
   a placement (the stock falls) or a cancellation (the stock rises); the admin
   product update leaves the stock as it was. *)
C19_StockOnlyByOrders ==
    \A q \in DOMAIN products : StockChanged(q) => ByPlacement(q) \/ ByCancellation(q)

(* C19 as the code has it: the stock changes through placement, cancellation
   and the admin product update that carries a stock field (which sets the
   stock to that value); an update without a stock field leaves it alone. *)
C19_StockByOrdersAndEdits ==
    \A q \in DOMAIN products :
        StockChanged(q) => ByPlacement(q) \/ ByCancellation(q) \/ ByStockEdit(q)

\* an admin update without a stock field was served on a product in stock
C19_Witness ==
    /\ last.in.kind = "updateProduct"
    /\ last.res.status = 200
    /\ "stock" \notin DOMAIN last.in.patch
    /\ last.pre.products[last.in.id].stock > 0

SomeLine(db, items, P(_, _)) == \E k \in 1..Len(items) : P(db, items[k])

LineMissing(db, line) == line.productId \notin DOMAIN db.products

LineInactive(db, line) ==
    line.productId \in DOMAIN db.products /\ ~db.products[line.productId].isActive

(* C20  Validation order over the whole request: a line naming a product that
   does not exist gives the product-not-found error wherever it stands; else an
   inactive product gives the not-available error; else a line above the stock
   gives the insufficient-stock error; else a total above the balance gives the
   insufficient-points error. *)
C20_ValidationOrder ==
    (PlacementServed /\ last.in.items # <<>>) =>
        LET pre == last.pre
            items == last.in.items
        IN  IF SomeLine(pre, items, LineMissing)
            THEN last.res.message = "Produto ID nao encontrado"
            ELSE IF SomeLine(pre, items, LineInactive)
            THEN last.res.message = "Produto nao esta disponivel"
            ELSE IF SomeLine(pre, items, LineFails)
            THEN last.res.message = "Estoque insuficiente"
            ELSE IF RequiredPoints(pre, items) > pre.users[last.in.caller].points
            THEN last.res.message = "Pontos insuficientes"
            ELSE last.res.status = 201

\* sum of pointsCost x quantity over the items of order id
ItemsTotal(its, id) ==
    SumSeq([k \in 1..Len(its) |->
              IF its[k].orderId = id THEN its[k].pointsCost * its[k].quantity ELSE 0])

(* C22  Snapshot pricing: every order's totalPoints equals the sum over its
   items of pointsCost x quantity; no request changes the totalPoints or the
   items of an order that existed before it (a price update and a status update
   included); the refund row of an order carries the amount its spent row
   debited. *)
C22_SnapshotPricing ==
    /\ \A id \in 1..Len(orders) : orders[id].totalPoints = ItemsTotal(orderItems, id)
    /\ last # NoRequest =>
          \A id \in 1..Len(last.pre.orders) :
              /\ orders[id].totalPoints = last.pre.orders[id].totalPoints
              /\ getOrderItems(DB, id) = getOrderItems(last.pre, id)
    /\ \A k \in 1..Len(pointTransactions) :
          LET tx == pointTransactions[k] IN
          tx.referenceId # 0 =>
              tx.points = IF tx.transactionType = "spent"
                          THEN -orders[tx.referenceId].totalPoints
                          ELSE orders[tx.referenceId].totalPoints

\* an order was refunded after the price of its product had been changed
C22_Witness ==
    /\ RefundRows(pointTransactions, 1) # {}
    /\ orders[1].totalPoints > 0
    /\ \E k \in 1..Len(orderItems) :
          /\ orderItems[k].orderId = 1
          /\ orderItems[k].productId \in DOMAIN products
          /\ products[orderItems[k].productId].pointsCost # orderItems[k].pointsCost

(* C26  A point adjustment for a user id that has no row and a status update
   for an order id that has no row answer 404 and leave the users, the
   products, the orders and the ledger as they were. *)
C26_NotFound ==
    /\ (/\ last.in.kind = "adjust"
        /\ last.in.caller = 1
        /\ last.in.description # ""
        /\ last.in.id \notin DOMAIN last.pre.users) =>
            last.res.status = 404 /\ DB = last.pre
    /\ (/\ last.in.kind = "status"
        /\ last.in.caller = 1
        /\ last.in.status \in OrderStatuses
        /\ last.in.id \notin 1..Len(last.pre.orders)) =>
            last.res.status = 404 /\ DB = last.pre

\* a cancellation named an order id one past the only order, which was pending
C26_Witness ==
    /\ last.in.kind = "status"
    /\ last.in.caller = 1
    /\ last.in.status = "cancelled"
    /\ Len(last.pre.orders) = 1
    /\ last.pre.orders[1].status = "pending"
    /\ last.in.id = 2
    /\ last.res.status = 404

(* C27  At most one refund per order: over any sequence of status updates
   (any target status, updates after a cancellation included) the ledger holds
   at most one refund row for an order and the order's totalPoints is credited
   back at most once, so the balance never exceeds the initial balance. *)
C27_OneRefundPerOrder ==
    /\ \A id \in 1..Len(orders) : Cardinality(RefundRows(pointTransactions, id)) <= 1
    /\ \A u \in DOMAIN users : users[u].points <= InitialPoints[u]

(* C28  Repeated product in one order: an accepted order that names a product
   in more than one line asked for no more of it, over all its lines, than the
   stock held, and the stock has fallen by the sum of those lines' quantities. *)
C28_RepeatedProduct ==
    (PlacementAccepted /\ ~DistinctProducts(last.in.items)) =>
        \A q \in DOMAIN last.pre.products :
            /\ RequestQuantity(last.in.items, q) <= last.pre.products[q].stock
            /\ products[q].stock =
                  last.pre.products[q].stock - RequestQuantity(last.in.items, q)

(* C29  A placement whose item list is empty is rejected and creates no order
   row, no item row and no ledger row. *)
C29_EmptyOrderRejected ==
    (PlacementServed /\ last.in.items = <<>>) =>
        /\ last.res.status # 201
        /\ orders = last.pre.orders
        /\ orderItems = last.pre.orderItems
        /\ pointTransactions = last.pre.pointTransactions

\* the ids of the users with the admin role
Admins(us) == {u \in DOMAIN us : us[u].role = "admin"}

(* C30  Once a user exists, a registration that asks for the admin role and
   comes from a caller without a session or from a logged-in employee creates
   no user with the admin role. *)
C30_NoAdminByRegistration ==
    (/\ last.in.kind = "register"
     /\ last.in.role = "admin"
     /\ DOMAIN last.pre.users # {}
     /\ last.in.caller \notin Admins(last.pre.users)) =>
        Admins(users) = Admins(last.pre.users)

\* no request is under way
Quiescent == \A p \in Slots : req[p] = Idle

(* C21  The status cancelled is written last: in no state, the states between
   two storage calls of a running cancellation included, is an order cancelled
   while its refund row is missing, its user's balance lacks the credit (is
   below the initial balance less the totals of that user's orders that are not
   cancelled) or a product's stock lacks a return (is below the initial stock
   less the quantities of the orders that are not cancelled). *)
C21_CancelledAfterReversal ==
    \A id \in 1..Len(orders) :
        orders[id].status = "cancelled" =>
            /\ RefundRows(pointTransactions, id) # {}
            /\ users[orders[id].userId].points >=
                  InitialPoints[orders[id].userId] - ActivePoints(orders, orders[id].userId)
            /\ \A q \in DOMAIN products :
                  products[q].stock >= InitialStock[q] - ActiveQuantity(orders, orderItems, q)

\* a cancellation has written the credit, the row and the stock, not yet the status
C21_Witness ==
    \E p \in Slots :
        /\ req[p] # Idle
        /\ req[p].pc = "updateOrder"
        /\ orders[req[p].in.id].status = "pending"
        /\ orders[req[p].in.id].totalPoints > 0
        /\ RefundRows(pointTransactions, req[p].in.id) # {}
        /\ req[p].orderItems # <<>>

(* C23  Under any interleaving of the storage calls of concurrent placements
   and cancellations no user's points and no product's stock is negative. *)
C23_NonNegativeUnderRace ==
    /\ \A u \in DOMAIN users : users[u].points >= 0
    /\ \A q \in DOMAIN products : products[q].stock >= 0

\* two interleaved placements have sold more of a product than it had; its stock is 0
C23_Witness ==
    /\ Quiescent
    /\ Len(orders) = 2
    /\ \E q \in DOMAIN products :
          /\ ActiveQuantity(orders, orderItems, q) > InitialStock[q]
          /\ products[q].stock = 0

(* C24  No lost update on the balance: once the concurrent requests have all
   completed, each user's points equals the initial balance plus the sum of the
   points of that user's ledger rows. *)
C24_NoLostBalanceUpdate ==
    Quiescent =>
        \A u \in DOMAIN users :
            users[u].points = InitialPoints[u] + LedgerSum(pointTransactions, u)

(* C25  No overselling under concurrency: in every state the quantity of a
   product in the items of the orders that are not cancelled is at most the
   product's initial stock. *)
C25_NoOverselling ==
    \A q \in DOMAIN products :
        ActiveQuantity(orders, orderItems, q) <= InitialStock[q]

====
